---- MODULE Spec2Model ----
(***************************************************************************)
(* Model of streamlit_app.py: one run of the script is one recomputation   *)
(* cycle.  The script downloads a table of adjusted close prices, computes *)
(* the percentage change over each look-back window of DAYS_BACK, builds   *)
(* the summary frame df_viz and formats every change with an icon.         *)
(*                                                                         *)
(* Numbers.  Prices are positive integers (price * 100).  A percentage     *)
(* change is kept as the exact fraction num / den with den > 0, so that    *)
(* thresholds are compared exactly; the double rounding of the Python      *)
(* arithmetic is not modelled.  NaN is a record with nan = TRUE; every     *)
(* comparison with NaN is FALSE, as in Python.                             *)
(***************************************************************************)
EXTENDS Integers, Sequences, FiniteSets, TLC

VARIABLES pc, stock_data, pct_changes, df_viz, idx, error

vars == <<pc, stock_data, pct_changes, df_viz, idx, error>>

\* ------------------------------------------------------------ constants

\* Largest number of rows of a downloaded table.
MaxRows == 181

\* The selected symbols (two of DEFAULT_STOCK_SYMBOLS).
stock_symbols == {"NVDA", "META"}

DAYS_BACK == <<1, 7, 30, 90, 180>>

CHANGE_ICONS ==
    [BigDrop   |-> "chart_decreasing",
     SmallDrop |-> "red_triangle_down",
     Neutral   |-> "",
     SmallRise |-> "green_circle",
     BigRise   |-> "rocket"]

\* ------------------------------------------------------------ numbers

NaN == [nan |-> TRUE, v |-> 0]

Val(x) == [nan |-> FALSE, v |-> x]

NaNRatio == [nan |-> TRUE, num |-> 0, den |-> 1]

\* a / b - 1 on floats: NaN when either operand is NaN.
DivMinusOne(a, b) ==
    IF a.nan \/ b.nan
    THEN NaNRatio
    ELSE [nan |-> FALSE, num |-> a.v - b.v, den |-> b.v]

\* x * 100
Times100(x) == IF x.nan THEN x ELSE [x EXCEPT !.num = 100 * @]

\* Python comparisons of a float with a literal; FALSE for NaN.
Lt(x, k) == ~x.nan /\ x.num < k * x.den
Le(x, k) == ~x.nan /\ x.num <= k * x.den
Gt(x, k) == ~x.nan /\ x.num > k * x.den
Ge(x, k) == ~x.nan /\ x.num >= k * x.den

Abs(n) == IF n < 0 THEN -n ELSE n

\* round-half-even of n / d (n >= 0, d > 0) to an integer
RoundHalfEven(n, d) ==
    LET q == n \div d
        r == n % d
    IN  IF 2 * r < d THEN q
        ELSE IF 2 * r > d THEN q + 1
        ELSE IF q % 2 = 0 THEN q ELSE q + 1

\* f"{val:.1f}": the sign and the tenths of the rounded magnitude; "nan" for NaN.
Format1f(val) ==
    IF val.nan
    THEN [nan |-> TRUE, neg |-> FALSE, tenths |-> 0]
    ELSE [nan |-> FALSE,
          neg |-> val.num < 0,
          tenths |-> RoundHalfEven(10 * Abs(val.num), val.den)]

\* ------------------------------------------------------------ pandas

\* Series.shift(periods): row i holds the value of row i - periods, NaN before.
Shift(col, periods) ==
    [i \in 1..Len(col) |-> IF i > periods THEN col[i - periods] ELSE NaN]

\* A wrong calculator: the offset is one row too far.
PctChangeOffByOne(col, periods) ==
    LET shifted == Shift(col, periods + 1)
    IN  [i \in 1..Len(col) |-> DivMinusOne(col[i], shifted[i])]

\* Forward fill: a missing value takes the last value before it.
RECURSIVE FFillAt(_, _)
FFillAt(col, i) ==
    IF i = 0 THEN NaN
    ELSE IF ~col[i].nan THEN col[i]
    ELSE FFillAt(col, i - 1)

\* A wrong calculator: pct_change with fill_method='pad'.
PctChangePad(col, periods) ==
    LET filled == [i \in 1..Len(col) |-> FFillAt(col, i)]
        shifted == Shift(filled, periods)
    IN  [i \in 1..Len(col) |-> DivMinusOne(filled[i], shifted[i])]

\* DataFrame.pct_change(periods, fill_method=None) on one column:
\* data / data.shift(periods) - 1, nothing filled.
PctChange(col, periods) ==
    LET shifted == Shift(col, periods)
    IN  [i \in 1..Len(col) |-> DivMinusOne(col[i], shifted[i])]

\* ------------------------------------------------------------ classifier

\* A wrong classifier: the 1% boundaries are exclusive.
ClassifyExclusive(val) ==
    IF Lt(val, 0)
    THEN IF Lt(val, -10) THEN CHANGE_ICONS.BigDrop
         ELSE IF Lt(val, -1) THEN CHANGE_ICONS.SmallDrop
         ELSE CHANGE_ICONS.Neutral
    ELSE IF Gt(val, 10) THEN CHANGE_ICONS.BigRise
         ELSE IF Gt(val, 1) THEN CHANGE_ICONS.SmallRise
         ELSE ""

\* The body of the loop over the values of a column: the icon of val (percent).
Classify(val) ==
    IF Lt(val, 0)
    THEN IF Lt(val, -10) THEN CHANGE_ICONS.BigDrop
         ELSE IF Le(val, -1) THEN CHANGE_ICONS.SmallDrop
         ELSE CHANGE_ICONS.Neutral
    ELSE IF Gt(val, 10) THEN CHANGE_ICONS.BigRise
         ELSE IF Ge(val, 1) THEN CHANGE_ICONS.SmallRise
         ELSE ""

\* The value the text of a cell shows, as a number again.
Shown(val) ==
    IF val.nan THEN val
    ELSE LET f == Format1f(val)
         IN  [nan |-> FALSE,
              num |-> IF f.neg THEN -f.tenths ELSE f.tenths,
              den |-> 10]

\* A wrong formatter: the icon is chosen from the rounded value.
FormatCellRounded(val) ==
    [text |-> Format1f(val), emoji |-> Classify(Shown(val))]

\* f"{val:.1f}% {emoji}"
FormatCell(val) ==
    [text |-> Format1f(val), emoji |-> Classify(val)]

\* ------------------------------------------------------------ the table

\* Numbers of rows of the tables yf.download may return (0: no trading day in
\* the date range).
RowCounts == {0, 1, 2, 8, 31, 91, MaxRows - 1, MaxRows}

\* Prices (times 100) of the rows before the last, by distance from the last row.
RefPrices == <<12500, 10000, 8000>>

\* Prices (times 100) of the last row.
LastPrices == {8500, 8996, 9000, 9900, 9904, 10000, 10096, 10100, 11000, 11004}

\* Distance from the last row of the one missing observation; -1: none missing.
Holes == {-1, 0, 1, 2, 7}

Shapes == [last : LastPrices, phase : {0, 1}, hole : Holes]

ShapesOther ==
    {[last |-> 10100, phase |-> 0, hole |-> -1],
     [last |-> 8500, phase |-> 1, hole |-> -1],
     [last |-> 10000, phase |-> 0, hole |-> 0],
     [last |-> 11004, phase |-> 1, hole |-> 1]}

\* One 'Adj Close' column of n rows.
Column(n, sh) ==
    [i \in 1..n |->
        LET k == n - i
        IN  IF k = sh.hole THEN NaN
            ELSE IF k = 0 THEN Val(sh.last)
            ELSE Val(RefPrices[((k + sh.phase) % 3) + 1])]

\* The script takes the Date index as yf.download returns it and never reads
\* it: consecutive days, days with weekend gaps, the last two rows swapped, or
\* the last date repeated.
DateModes == {"daily", "gaps", "swapped", "duplicate"}

\* The Date index of n rows, as day numbers.
Dates(n, mode) ==
    [i \in 1..n |->
        IF mode = "gaps" THEN i + 2 * (i \div 5)
        ELSE IF mode = "swapped" /\ n >= 2 /\ i = n THEN n - 1
        ELSE IF mode = "swapped" /\ n >= 2 /\ i = n - 1 THEN n
        ELSE IF mode = "duplicate" /\ n >= 2 /\ i = n THEN n - 1
        ELSE i]

EmptyData == [dates |-> <<>>, adj |-> [s \in stock_symbols |-> <<>>]]

NoFrame == [s \in {} |-> <<>>]

\* ------------------------------------------------------------ the script

\* The positions of a run of the script and the errors it can end with.
TypeOK ==
    /\ pc \in {"start", "calc", "viz", "format", "done", "error"}
    /\ idx \in 0..Len(DAYS_BACK)
    /\ error \in {"", "IndexError"}

Init ==
    /\ pc = "start"
    /\ stock_data = EmptyData
    /\ pct_changes = NoFrame
    /\ df_viz = NoFrame
    /\ idx = 0
    /\ error = ""

\* stock_data = get_data_for_stocks(stock_symbols, start_date, end_date)
Fetch ==
    /\ pc = "start"
    /\ \E n \in RowCounts, sh \in Shapes, other \in ShapesOther, mode \in DateModes :
          stock_data' =
              [dates |-> Dates(n, mode),
               adj |-> [s \in stock_symbols |->
                           IF s = "NVDA" THEN Column(n, sh) ELSE Column(n, other)]]
    /\ pc' = "calc"
    /\ idx' = 1
    /\ UNCHANGED <<pct_changes, df_viz, error>>

\* One turn of: for days_back in DAYS_BACK: pct_changes[days_back] = ...
CalcPctChange ==
    /\ pc = "calc"
    /\ LET days_back == DAYS_BACK[idx]
       IN  pct_changes' =
               pct_changes @@
               (days_back :> [s \in stock_symbols |->
                                 PctChange(stock_data.adj[s], days_back)])
    /\ IF idx = Len(DAYS_BACK)
       THEN pc' = "viz" /\ idx' = 0
       ELSE pc' = "calc" /\ idx' = idx + 1
    /\ UNCHANGED <<stock_data, df_viz, error>>

\* df_viz = stock_data['Adj Close'].iloc[[-1]].T ; one column, the latest price.
\* iloc[[-1]] of a frame without rows raises IndexError.
BuildViz ==
    /\ pc = "viz"
    /\ IF Len(stock_data.dates) = 0
       THEN /\ pc' = "error"
            /\ error' = "IndexError"
            /\ UNCHANGED <<df_viz, idx>>
       ELSE /\ df_viz' = [s \in stock_symbols |->
                             [price |-> stock_data.adj[s][Len(stock_data.adj[s])],
                              cells |-> NoFrame]]
            /\ pc' = "format"
            /\ idx' = 1
            /\ UNCHANGED error
    /\ UNCHANGED <<stock_data, pct_changes>>

\* One turn of the second loop: the column pct_change_{days_back}d is the last
\* row of pct_changes[days_back] times 100, then each value with its icon.
FormatColumn ==
    /\ pc = "format"
    /\ LET days_back == DAYS_BACK[idx]
           frame == pct_changes[days_back]
       IN  df_viz' =
               [s \in stock_symbols |->
                   [df_viz[s] EXCEPT
                       !.cells = @ @@
                           (days_back :>
                               FormatCell(Times100(frame[s][Len(frame[s])])))]]
    /\ IF idx = Len(DAYS_BACK)
       THEN pc' = "done" /\ idx' = 0
       ELSE pc' = "format" /\ idx' = idx + 1
    /\ UNCHANGED <<stock_data, pct_changes, error>>

\* Any interaction of the user runs the script again, from scratch.
Rerun ==
    /\ pc \in {"done", "error"}
    /\ pc' = "start"
    /\ stock_data' = EmptyData
    /\ pct_changes' = NoFrame
    /\ df_viz' = NoFrame
    /\ idx' = 0
    /\ error' = ""

Next ==
    \/ Fetch
    \/ CalcPctChange
    \/ BuildViz
    \/ FormatColumn
    \/ Rerun

Spec == Init /\ [][Next]_vars

\* ------------------------------------------------------------ properties

Rows == Len(stock_data.dates)

StrictlyIncreasing ==
    \A i \in 1..(Rows - 1) : stock_data.dates[i] < stock_data.dates[i + 1]

Windows == {DAYS_BACK[i] : i \in 1..Len(DAYS_BACK)}

\* The cells of the summary that exist so far, as <<symbol, window>>.
Cells ==
    {c \in stock_symbols \X Windows :
        c[1] \in DOMAIN df_viz /\ c[2] \in DOMAIN df_viz[c[1]].cells}

CellOf(c) == df_viz[c[1]].cells[c[2]]

LastPrice(s) == stock_data.adj[s][Rows]

PrevPrice(s, N) == stock_data.adj[s][Rows - N]

BothPresent(s, N) ==
    Rows >= N + 1 /\ ~LastPrice(s).nan /\ ~PrevPrice(s, N).nan

\* C1: with at least N+1 rows in ascending order, the change computed for
\* (N, symbol) at the latest row is (last value) / (value N rows before) - 1,
\* rows counted and not calendar days; the summary cell shows that value
\* times 100 to one decimal.
C1_RowOffsetRatio ==
    /\ \A N \in DOMAIN pct_changes : \A s \in stock_symbols :
          (StrictlyIncreasing /\ BothPresent(s, N)) =>
              LET got == pct_changes[N][s][Rows]
                  last == LastPrice(s).v
                  prev == PrevPrice(s, N).v
              IN  /\ ~got.nan
                  /\ got.num * prev = (last - prev) * got.den
    /\ \A c \in Cells :
          (StrictlyIncreasing /\ BothPresent(c[1], c[2])) =>
              LET last == LastPrice(c[1]).v
                  prev == PrevPrice(c[1], c[2]).v
              IN  /\ ~CellOf(c).text.nan
                  /\ CellOf(c).text.neg = (last < prev)
                  /\ CellOf(c).text.tenths
                         = RoundHalfEven(1000 * Abs(last - prev), prev)

\* C1 witness: a finished cycle over a full table whose dates have gaps (so
\* 180 rows back is not 180 days back), with every window's change present.
C1_Witness ==
    /\ pc = "done"
    /\ Rows = MaxRows
    /\ StrictlyIncreasing
    /\ stock_data.dates[Rows] - stock_data.dates[1] > Rows - 1
    /\ \A N \in Windows : BothPresent("NVDA", N) /\ ~pct_changes[N]["NVDA"][Rows].nan

\* The five buckets of a change d / prev (a fraction, prev > 0).
InBucket(b, d, prev) ==
    CASE b = "BigDrop"   -> 10 * d < -prev
      [] b = "SmallDrop" -> -prev <= 10 * d /\ 100 * d <= -prev
      [] b = "Neutral"   -> -prev < 100 * d /\ 100 * d < prev
      [] b = "SmallRise" -> prev <= 100 * d /\ 10 * d <= prev
      [] b = "BigRise"   -> 10 * d > prev

Buckets == {"BigDrop", "SmallDrop", "Neutral", "SmallRise", "BigRise"}

C3_VerifiedBeforeSummary ==
    [][pc' \in {"viz", "format", "done"} => pc \in {"verify", "viz", "format"}]_vars

\* C4: with fewer than N+1 rows the result for window N is the absent marker;
\* no exception escapes and no number is produced.
C4_ShortTableAbsent ==
    \A N \in Windows :
        Rows < N + 1 =>
            /\ error = ""
            /\ \A s \in stock_symbols :
                  /\ (N \in DOMAIN pct_changes /\ Rows >= 1)
                         => pct_changes[N][s][Rows].nan
                  /\ <<s, N>> \in Cells => CellOf(<<s, N>>).text.nan

\* C5: an absent change is shown in a no-data state of its own: its cell does
\* not carry the icon of any bucket, in particular not Neutral's empty icon.
C5_AbsentNotNeutral ==
    \A c \in Cells :
        CellOf(c).text.nan =>
            /\ CellOf(c).emoji # CHANGE_ICONS.Neutral
            /\ \A b \in Buckets : CellOf(c).emoji # CHANGE_ICONS[b]

\* C6: a table whose dates are not strictly increasing is rejected before any
\* change is computed, and no summary is produced.
C6_UnsortedRejected ==
    ~StrictlyIncreasing =>
        /\ pct_changes = NoFrame
        /\ df_viz = NoFrame
        /\ pc \notin {"viz", "format", "done"}

\* C7: if the value at the latest row or N rows earlier is missing, the result
\* for (N, symbol) is absent; no neighbouring row stands in for it.
C7_MissingPropagates ==
    /\ \A N \in DOMAIN pct_changes : \A s \in stock_symbols :
          (Rows >= N + 1 /\ (LastPrice(s).nan \/ PrevPrice(s, N).nan))
              => pct_changes[N][s][Rows].nan
    /\ \A c \in Cells :
          (Rows >= c[2] + 1 /\ (LastPrice(c[1]).nan \/ PrevPrice(c[1], c[2]).nan))
              => CellOf(c).text.nan

\* C7 witness: the row one before the last is missing while the rows around it
\* are present, and the one-row change is absent in the finished summary.
C7_Witness ==
    /\ pc = "done"
    /\ Rows >= 3
    /\ PrevPrice("NVDA", 1).nan
    /\ ~LastPrice("NVDA").nan
    /\ ~PrevPrice("NVDA", 2).nan
    /\ CellOf(<<"NVDA", 1>>).text.nan
    /\ ~CellOf(<<"NVDA", 7>>).text.nan

\* C8: missing history is not fatal: a cycle in which some window exceeds the
\* rows available still completes, and a finished summary holds, in every
\* cell whose two rows are present, the value and icon of its own column.
C8_MissingHistoryNotFatal ==
    (pc # "start" /\ \E N \in Windows : Rows < N + 1) =>
        /\ pc # "error"
        /\ pc = "done" =>
              \A s \in stock_symbols : \A N \in Windows :
                  BothPresent(s, N) =>
                      CellOf(<<s, N>>) =
                          FormatCell(Times100(
                              DivMinusOne(LastPrice(s), PrevPrice(s, N))))

\* The windows the summary is to cover.
CanonicalWindows == {1, 7, 30, 90, 180, 365}

\* C9: the finished summary has one row per symbol of the table, holding the
\* latest adjusted close and one cell for every window of {1, 7, 30, 90, 180,
\* 365}, all taken at the latest row.
C9_AllWindowsPerSymbol ==
    pc = "done" =>
        /\ DOMAIN df_viz = stock_symbols
        /\ \A s \in stock_symbols :
              /\ df_viz[s].price = LastPrice(s)
              /\ DOMAIN df_viz[s].cells = CanonicalWindows

\* The icon of the exact percentage num / den * 100.
ExactIcon(r) ==
    IF 100 * r.num < -10 * r.den THEN CHANGE_ICONS.BigDrop
    ELSE IF 100 * r.num <= -r.den THEN CHANGE_ICONS.SmallDrop
    ELSE IF 100 * r.num < r.den THEN CHANGE_ICONS.Neutral
    ELSE IF 100 * r.num <= 10 * r.den THEN CHANGE_ICONS.SmallRise
    ELSE CHANGE_ICONS.BigRise

\* C10: the icon of a cell is the bucket of the unrounded change, whatever the
\* one-decimal figure beside it shows.
C10_IconOfUnrounded ==
    \A c \in Cells :
        LET r == pct_changes[c[2]][c[1]][Rows]
        IN  ~r.nan =>
                /\ CellOf(c).emoji = ExactIcon(r)
                /\ CellOf(c).text.tenths = RoundHalfEven(1000 * Abs(r.num), r.den)

\* C10 witness: a cell that shows 10.0% with the BigRise icon, and so a figure
\* on the SmallRise side of the threshold beside the icon of the other side.
C10_Witness ==
    \E c \in Cells :
        /\ CellOf(c).text.tenths = 100
        /\ ~CellOf(c).text.neg
        /\ ~CellOf(c).text.nan
        /\ CellOf(c).emoji = "rocket"

====
